---------------------------- MODULE Spec2Model ----------------------------
(***************************************************************************)
(* Orders Invoice API (src/main.py): extraction of order records from an   *)
(* HTML export, rendering of the consolidated invoice document, delivery   *)
(* to Telegram and the /process request handler that chains them.          *)
(*                                                                         *)
(* Text is a sequence of one-symbol strings; " " is the whitespace symbol. *)
(* An Optional[T] value is a sequence of length 0 (None) or 1 (the value). *)
(***************************************************************************)
EXTENDS Integers, Sequences, FiniteSets, TLC

VARIABLES
    \* process-wide configuration read from the environment (main.py 11-13)
    API_KEY, TELEGRAM_BOT_TOKEN, TELEGRAM_CHAT_ID,
    \* the /process request being served and the handler's position in it
    payload, x_api_key, pc,
    \* locals of process_orders
    r, html, orders_soups, orders_data, final_html, tmp_path, tg_result,
    \* what the client receives
    response,
    \* the world outside the process: temp files on disk, outbound calls
    \* made while serving the current request
    files, get_calls, post_calls,
    \* one call of get_text_by_caption / the products loop / the renderer
    fieldCall, productsCall, renderCall

handlerVars == <<API_KEY, TELEGRAM_BOT_TOKEN, TELEGRAM_CHAT_ID, payload,
                 x_api_key, pc, r, html, orders_soups, orders_data, final_html,
                 tmp_path, tg_result, response, files, get_calls, post_calls>>
vars == <<handlerVars, fieldCall, productsCall, renderCall>>

None == <<>>
Some(v) == <<v>>

-----------------------------------------------------------------------------
(* Python str operations used by the parsers *)

RECURSIVE LStrip(_)
LStrip(s) == IF s # <<>> /\ Head(s) = " " THEN LStrip(Tail(s)) ELSE s

RECURSIVE RStrip(_)
RStrip(s) ==
    IF s # <<>> /\ s[Len(s)] = " " THEN RStrip(SubSeq(s, 1, Len(s) - 1)) ELSE s

\* str.strip()
Strip(s) == RStrip(LStrip(s))

\* str.replace(old, ""): every non-overlapping occurrence, left to right
RECURSIVE ReplaceWithEmpty(_, _)
ReplaceWithEmpty(s, old) ==
    IF Len(s) < Len(old) \/ old = <<>> THEN s
    ELSE IF SubSeq(s, 1, Len(old)) = old
         THEN ReplaceWithEmpty(SubSeq(s, Len(old) + 1, Len(s)), old)
         ELSE <<Head(s)>> \o ReplaceWithEmpty(Tail(s), old)

\* old in s
Contains(s, old) ==
    \E i \in 1..(Len(s) - Len(old) + 1) : SubSeq(s, i, i + Len(old) - 1) = old

RECURSIVE Concat(_)
Concat(ss) == IF ss = <<>> THEN <<>> ELSE Head(ss) \o Concat(Tail(ss))

Min(S) == CHOOSE x \in S : \A y \in S : x <= y

\* all sequences over S of length lo..hi
SeqsOf(S, lo, hi) == UNION {[1..n -> S] : n \in lo..hi}

-----------------------------------------------------------------------------
(* Markup.  An element's content is the sequence of its child nodes in     *)
(* document order: a text node, or a span holding one string.              *)

TextNode(s)  == [tag |-> "text", class |-> "", string |-> s]
SpanNode(s)  == [tag |-> "span", class |-> "", string |-> s]
AttrsSpan(s) == [tag |-> "span", class |-> "product-attrs", string |-> s]
H2Node(s)    == [tag |-> "h2", class |-> "", string |-> s]

\* Tag.find(tag): the first such node of the element, or None
Find(element, tag) ==
    LET hit == {j \in DOMAIN element : element[j].tag = tag}
    IN  IF hit = {} THEN None ELSE Some(element[Min(hit)])

\* Tag.find(tag, class_=class)
FindClass(element, tag, class) ==
    LET hit == {j \in DOMAIN element :
                   element[j].tag = tag /\ element[j].class = class}
    IN  IF hit = {} THEN None ELSE Some(element[Min(hit)])

\* Tag.get_text(strip=True): every string of the element stripped on its
\* own, the empty ones dropped, the rest joined with no separator
GetTextStrip(element) ==
    Concat([i \in DOMAIN element |-> Strip(element[i].string)])

\* Tag.get_text(): the element's strings joined as they are
GetText(element) ==
    Concat([i \in DOMAIN element |-> element[i].string])

\* the six captions of extract_order_data; each label is one symbol, the
\* colon and the trailing space (first three captions only) are kept
CaptionOrderNumber == <<"order number", ":", " ">>
CaptionOrderDate   == <<"order date", ":", " ">>
CaptionFullName    == <<"full name", ":", " ">>
CaptionPhone       == <<"phone", ":">>
CaptionZipcode     == <<"zipcode", ":">>
CaptionAddress     == <<"address", ":">>

Captions == {CaptionOrderNumber, CaptionOrderDate, CaptionFullName,
             CaptionPhone, CaptionZipcode, CaptionAddress}

\* order_soup.find("span", string=caption): the cells of the order block
\* that hold a span whose string equals the caption exactly
CellsWithLabel(cells, caption) ==
    {i \in DOMAIN cells :
        \E j \in DOMAIN cells[i] :
            cells[i][j].tag = "span" /\ cells[i][j].string = caption}

\* extract_order_data.get_text_by_caption (span.parent is the cell of the
\* first matching span in document order)
get_text_by_caption(cells, caption) ==
    LET hit == CellsWithLabel(cells, caption)
    IN  IF hit # {}
        THEN ReplaceWithEmpty(GetTextStrip(cells[Min(hit)]), caption)
        ELSE <<>>

-----------------------------------------------------------------------------
(* Products table of one order block: a sequence of rows, a row being the  *)
(* sequence of its td elements (row.find_all("td")).                       *)

MinTds == 4

\* main.py 40-44: the two guards that skip a row
RowSkipped(tds) == Len(tds) < MinTds \/ Find(tds[2], "h2") = None

\* main.py 45-58: the body of the try; any exception skips the row, which
\* is the None result (a td or heading that is not there)
ProductOfRow(tds) ==
    IF Len(tds) < MinTds \/ Find(tds[2], "h2") = None
    THEN None
    ELSE LET product_info == tds[2]
             attrs    == FindClass(product_info, "span", "product-attrs")
             codeSpan == Find(tds[3], "span")
             qtySpan  == Find(tds[4], "span")
         IN  Some([name     |-> Strip(Find(product_info, "h2")[1].string),
                   attrs    |-> IF attrs # None
                                THEN Strip(attrs[1].string) ELSE <<>>,
                   code     |-> IF codeSpan # None
                                THEN Strip(codeSpan[1].string) ELSE <<>>,
                   quantity |-> IF qtySpan # None
                                THEN Strip(qtySpan[1].string) ELSE <<>>])

\* the loop with break in place of continue
RECURSIVE ProductsOfRows_StopAtInvalidRow(_)
ProductsOfRows_StopAtInvalidRow(rows) ==
    IF rows = <<>> THEN <<>>
    ELSE IF RowSkipped(Head(rows)) THEN <<>>
    ELSE ProductOfRow(Head(rows))
         \o ProductsOfRows_StopAtInvalidRow(Tail(rows))

\* main.py 38-58: the loop over products_table.find_all("tr")
RECURSIVE ProductsOfRows(_)
ProductsOfRows(rows) ==
    IF rows = <<>> THEN <<>>
    ELSE IF RowSkipped(Head(rows)) THEN ProductsOfRows(Tail(rows))
    ELSE ProductOfRow(Head(rows)) \o ProductsOfRows(Tail(rows))

\* main.py 35-58: products of an order block; products_table is
\* order_soup.find("table", class_="products"), None when there is none
extract_products(products_table) ==
    IF products_table # None THEN ProductsOfRows(products_table[1]) ELSE <<>>

\* main.py 21-68
extract_order_data(order_soup) ==
    [order_number |-> get_text_by_caption(order_soup.cells, CaptionOrderNumber),
     order_date   |-> get_text_by_caption(order_soup.cells, CaptionOrderDate),
     full_name    |-> get_text_by_caption(order_soup.cells, CaptionFullName),
     phone        |-> get_text_by_caption(order_soup.cells, CaptionPhone),
     zipcode      |-> get_text_by_caption(order_soup.cells, CaptionZipcode),
     address      |-> get_text_by_caption(order_soup.cells, CaptionAddress),
     products     |-> extract_products(order_soup.products_table)]

-----------------------------------------------------------------------------
(* Report renderer.  The document is a sequence of symbols: a tag is "<",  *)
(* its name (attributes follow as one symbol) and ">"; an interpolated     *)
(* value contributes its own symbols unchanged.  Layout whitespace between *)
(* tags is left out; the space between a label and its value is kept.      *)

Open(name)        == <<"<", name, ">">>
OpenAttr(name, a) == <<"<", name, a, ">">>
Close(name)       == <<"<", "/", name, ">">>

Cell(value) == Open("td") \o value \o Close("td")
HeaderCell(title) == Open("th") \o <<title>> \o Close("th")

\* main.py 75-82: one product row
ProductRowHtml(p) ==
    Open("tr") \o Cell(p.name) \o Cell(p.attrs) \o Cell(p.code)
               \o Cell(p.quantity) \o Close("tr")

\* main.py 73-82: product_rows of one order
RECURSIVE ProductRowsHtml(_)
ProductRowsHtml(products) ==
    IF products = <<>> THEN <<>>
    ELSE ProductRowHtml(Head(products)) \o ProductRowsHtml(Tail(products))

\* main.py 83-97: products_table
ProductsTableHtml(products) ==
    OpenAttr("table", "class=products")
    \o Open("thead") \o Open("tr")
    \o HeaderCell("product name") \o HeaderCell("attributes")
    \o HeaderCell("code") \o HeaderCell("quantity")
    \o Close("tr") \o Close("thead")
    \o Open("tbody") \o ProductRowsHtml(products) \o Close("tbody")
    \o Close("table")

\* main.py 102-107: one labelled line
FieldLineHtml(label, value) ==
    Open("div") \o Open("strong") \o <<label>> \o Close("strong")
    \o <<" ">> \o value \o Close("div")

\* main.py 98-109: order_html of the i-th order
OrderHtml(i, order) ==
    OpenAttr("section", "style")
    \o Open("h2") \o <<"order no", " ", ToString(i)>> \o Close("h2")
    \o ProductsTableHtml(order.products)
    \o FieldLineHtml("order number:", order.order_number)
    \o FieldLineHtml("order date:", order.order_date)
    \o FieldLineHtml("full name:", order.full_name)
    \o FieldLineHtml("phone:", order.phone)
    \o FieldLineHtml("zipcode:", order.zipcode)
    \o FieldLineHtml("address:", order.address)
    \o Close("section")

\* main.py 71-110: all_orders_html, enumerate(orders_data, start=1)
RECURSIVE AllOrdersHtml(_, _)
AllOrdersHtml(orders, i) ==
    IF orders = <<>> THEN <<>>
    ELSE OrderHtml(i, Head(orders)) \o AllOrdersHtml(Tail(orders), i + 1)

\* main.py 112-144: the document around the sections
DocumentHead ==
    <<"<!DOCTYPE html>">> \o OpenAttr("html", "lang=fa") \o Open("head")
    \o OpenAttr("meta", "charset=UTF-8")
    \o Open("title") \o <<"extracted invoices">> \o Close("title")
    \o Open("style") \o <<"css">> \o Close("style")
    \o Close("head") \o Open("body")
DocumentTail == Close("body") \o Close("html")

\* main.py 70-144
generate_html_for_orders(orders) ==
    DocumentHead \o AllOrdersHtml(orders, 1) \o DocumentTail

-----------------------------------------------------------------------------
(* The /process handler.  A parsed document is the sequence of its table   *)
(* elements in document order; an order block carries the cells that hold  *)
(* its labelled fields and its products table.                             *)

\* main.py 18-19: soup.find_all("table", class_="wrapper")
\* find_all("table") without the class filter
extract_orders_AnyTable(soup) == soup

extract_orders(soup) ==
    SelectSeq(soup, LAMBDA table : table.class = "wrapper")

\* Python truthiness of an Optional[str] (None and "" are falsy)
Truthy(opt) == opt # None /\ Len(opt[1]) > 0

\* the check skipped when the header is absent
AuthRejected_MissingHeaderPasses(key, header) ==
    key # <<>> /\ header # None /\ header # Some(key)

\* main.py 176
AuthRejected(key, header) == key # <<>> /\ header # Some(key)

\* "and" in place of "or"
CredentialsMissing_BothEmpty(token, chat_id) == token = <<>> /\ chat_id = <<>>

\* main.py 148
CredentialsMissing(token, chat_id) == token = <<>> \/ chat_id = <<>>

NoResponse == [status |-> 0]
HttpError(code, detail) == [status |-> code, detail |-> detail]
\* an exception no handler catches: the framework answers 500
ServerError == HttpError(500, "Internal Server Error")

-----------------------------------------------------------------------------
(* Inputs *)

MaxTables   == 2    \* tables in one input document
MaxTmpFiles == 2    \* temp files left on disk before the model stops

\* an order block with two labelled fields and a products table whose
\* first row is a header row and whose second row is a product
OrderBlock ==
    [class |-> "wrapper",
     cells |-> << <<SpanNode(CaptionPhone), TextNode(<<" ", "0", "9", " ">>)>>,
                  <<SpanNode(CaptionOrderNumber), TextNode(<<"7">>)>> >>,
     products_table |->
        Some(<< <<>>,
                << <<TextNode(<<"1">>)>>,
                   <<H2Node(<<"pen">>), AttrsSpan(<<"blue">>)>>,
                   <<SpanNode(<<"c1">>)>>,
                   <<SpanNode(<<"2">>)>> >> >>)]
\* a table that is not an order block
OtherTable  == [class |-> "layout", cells |-> <<>>, products_table |-> None]

Tables == {OrderBlock, OtherTable}
\* non-empty HTML texts
Documents == SeqsOf(Tables, 1, MaxTables)

Keys    == {<<>>, <<"k">>}
Headers == {None, Some(<<"k">>), Some(<<"x">>)}
Urls    == {None, Some(<<>>), Some(<<"u">>)}
Htmls   == {None, Some(<<>>)} \cup {Some(d) : d \in Documents}

\* main.py 161-166
ProcessInput ==
    [url : Urls, html : Htmls, send_to_telegram : BOOLEAN,
     return_html : BOOLEAN, filename : {"all_orders.html"}]

\* what the upstream server may answer to requests.get
UpstreamResponses ==
    [status_code : {200}, text : {<<>>} \cup Documents]
    \cup [status_code : {404}, text : {<<>>}]

NoPayload == [url |-> None, html |-> None, send_to_telegram |-> FALSE,
              return_html |-> FALSE, filename |-> ""]

HandlerIdle ==
    /\ payload = NoPayload /\ x_api_key = None /\ pc = "idle"
    /\ r = None /\ html = None /\ orders_soups = None /\ orders_data = None
    /\ final_html = None /\ tmp_path = None /\ tg_result = None
    /\ response = NoResponse /\ get_calls = 0 /\ post_calls = 0

NoCall == [state |-> "none"]

Init ==
    /\ API_KEY \in Keys
    /\ TELEGRAM_BOT_TOKEN \in {<<>>, <<"t">>}
    /\ TELEGRAM_CHAT_ID \in {<<>>, <<"c">>}
    /\ HandlerIdle
    /\ files = {}
    /\ fieldCall = NoCall /\ productsCall = NoCall /\ renderCall = NoCall

config == <<API_KEY, TELEGRAM_BOT_TOKEN, TELEGRAM_CHAT_ID>>
calls  == <<fieldCall, productsCall, renderCall>>

-----------------------------------------------------------------------------
(* Routes *)

\* main.py 169-171
health ==
    /\ pc = "idle"
    /\ response' = [status |-> 200,
                    body |-> [ok |-> TRUE, service |-> "orders-invoice-api"]]
    /\ UNCHANGED <<config, payload, x_api_key, pc, r, html, orders_soups,
                   orders_data, final_html, tmp_path, tg_result, files,
                   get_calls, post_calls, calls>>

\* a POST /process arrives: main.py 173-174
Receive ==
    /\ pc = "idle"
    /\ Cardinality(files) < MaxTmpFiles
    /\ payload' \in ProcessInput
    /\ x_api_key' \in Headers
    /\ pc' = "auth"
    /\ response' = NoResponse
    /\ UNCHANGED <<config, r, html, orders_soups, orders_data, final_html,
                   tmp_path, tg_result, files, get_calls, post_calls, calls>>

\* the response has been sent: the request and the handler's locals are
\* gone, the files it left on disk are not
Return ==
    /\ pc = "done"
    /\ pc' = "idle"
    /\ payload' = NoPayload /\ x_api_key' = None
    /\ r' = None /\ html' = None /\ orders_soups' = None /\ orders_data' = None
    /\ final_html' = None /\ tmp_path' = None /\ tg_result' = None
    /\ get_calls' = 0 /\ post_calls' = 0
    /\ UNCHANGED <<config, response, files, calls>>

Abort(resp) == pc' = "done" /\ response' = resp

\* main.py 175-177
Authorize ==
    /\ pc = "auth"
    /\ IF AuthRejected(API_KEY, x_api_key)
       THEN Abort(HttpError(401, "Invalid API key"))
       ELSE pc' = "input" /\ UNCHANGED response
    /\ UNCHANGED <<config, payload, x_api_key, r, html, orders_soups,
                   orders_data, final_html, tmp_path, tg_result, files,
                   get_calls, post_calls, calls>>

\* main.py 188-189 after html is known
CheckHtml(h) ==
    IF ~Truthy(h)
    THEN Abort(HttpError(400, "Provide 'url' or 'html'"))
    ELSE pc' = "extract" /\ UNCHANGED response

\* the input step fetching the url only when html is falsy
ResolveInput_HtmlFirst ==
    /\ pc = "input"
    /\ IF ~Truthy(payload.html) /\ Truthy(payload.url)
       THEN /\ get_calls' = get_calls + 1
            /\ \/ /\ r' = None /\ html' = payload.html
                  /\ Abort(ServerError)
               \/ \E resp \in UpstreamResponses :
                     /\ r' = Some(resp)
                     /\ IF resp.status_code # 200
                        THEN html' = payload.html
                             /\ Abort(HttpError(400, "Fetch failed"))
                        ELSE html' = Some(resp.text) /\ CheckHtml(html')
       ELSE /\ html' = payload.html
            /\ CheckHtml(html')
            /\ UNCHANGED <<r, get_calls>>
    /\ UNCHANGED <<config, payload, x_api_key, orders_soups, orders_data,
                   final_html, tmp_path, tg_result, files, post_calls, calls>>

\* main.py 179-189; requests.get either raises (timeout, connection
\* error), which nothing catches, or returns the upstream response
ResolveInput ==
    /\ pc = "input"
    /\ IF Truthy(payload.url)
       THEN /\ get_calls' = get_calls + 1
            /\ \/ /\ r' = None /\ html' = payload.html
                  /\ Abort(ServerError)
               \/ \E resp \in UpstreamResponses :
                     /\ r' = Some(resp)
                     /\ IF resp.status_code # 200
                        THEN html' = payload.html
                             /\ Abort(HttpError(400, "Fetch failed"))
                        ELSE html' = Some(resp.text) /\ CheckHtml(html')
       ELSE /\ html' = payload.html
            /\ CheckHtml(html')
            /\ UNCHANGED <<r, get_calls>>
    /\ UNCHANGED <<config, payload, x_api_key, orders_soups, orders_data,
                   final_html, tmp_path, tg_result, files, post_calls, calls>>

\* main.py 191-197
ExtractAndRender ==
    /\ pc = "extract"
    /\ orders_soups' = Some(extract_orders(html[1]))
    /\ IF orders_soups'[1] = <<>>
       THEN /\ Abort(HttpError(404, "No orders found"))
            /\ UNCHANGED <<orders_data, final_html>>
       ELSE /\ orders_data' =
                   Some([i \in DOMAIN orders_soups'[1] |->
                            extract_order_data(orders_soups'[1][i])])
            /\ final_html' = Some(generate_html_for_orders(orders_data'[1]))
            /\ pc' = "tmpfile" /\ UNCHANGED response
    /\ UNCHANGED <<config, payload, x_api_key, r, html, tmp_path, tg_result,
                   files, get_calls, post_calls, calls>>

\* tempfile.NamedTemporaryFile picks a name no file has
FreshPath == Min({n \in 1..(Cardinality(files) + 1) : n \notin files})

\* main.py 199-204; delete=False keeps the file after the with block
WriteTempFile ==
    /\ pc = "tmpfile"
    /\ tmp_path' = Some(FreshPath)
    /\ files' = files \cup {FreshPath}
    /\ tg_result' = None
    /\ pc' = "deliver"
    /\ UNCHANGED <<config, payload, x_api_key, r, html, orders_soups,
                   orders_data, final_html, response, get_calls, post_calls,
                   calls>>

\* main.py 205-207 with send_to_telegram (147-158) inlined; requests.post
\* either raises, which nothing catches, or returns a response whose ok
\* flag becomes the result's
Deliver ==
    /\ pc = "deliver"
    /\ IF ~payload.send_to_telegram
       THEN pc' = "cleanup" /\ UNCHANGED <<tg_result, post_calls, response>>
       ELSE IF CredentialsMissing(TELEGRAM_BOT_TOKEN, TELEGRAM_CHAT_ID)
       THEN /\ tg_result' = Some([ok |-> FALSE,
                                  error |-> "TELEGRAM_BOT_TOKEN or TELEGRAM_CHAT_ID not set"])
            /\ pc' = "cleanup" /\ UNCHANGED <<post_calls, response>>
       ELSE /\ post_calls' = post_calls + 1
            /\ \/ Abort(ServerError) /\ UNCHANGED tg_result
               \/ \E ok \in BOOLEAN :
                     /\ tg_result' = Some([ok |-> ok, resp |-> "json"])
                     /\ pc' = "cleanup" /\ UNCHANGED response
    /\ UNCHANGED <<config, payload, x_api_key, r, html, orders_soups,
                   orders_data, final_html, tmp_path, files, get_calls, calls>>

\* main.py 209-213
RemoveTempFile ==
    /\ pc = "cleanup"
    /\ files' = files \ {tmp_path[1]}
    /\ pc' = "respond"
    /\ UNCHANGED <<config, payload, x_api_key, r, html, orders_soups,
                   orders_data, final_html, tmp_path, tg_result, response,
                   get_calls, post_calls, calls>>

\* main.py 215-224
Respond ==
    /\ pc = "respond"
    /\ Abort([status |-> 200,
              body |-> [ok               |-> TRUE,
                        orders           |-> Len(orders_data[1]),
                        sent_to_telegram |-> payload.send_to_telegram,
                        telegram_result  |-> tg_result,
                        filename         |-> payload.filename,
                        html             |-> IF payload.return_html
                                             THEN final_html ELSE None]])
    /\ UNCHANGED <<config, payload, x_api_key, r, html, orders_soups,
                   orders_data, final_html, tmp_path, tg_result, files,
                   get_calls, post_calls, calls>>

\* main.py 173-224
process_orders ==
    \/ Receive \/ Authorize \/ ResolveInput \/ ExtractAndRender
    \/ WriteTempFile \/ Deliver \/ RemoveTempFile \/ Respond \/ Return

Next == health \/ process_orders

Spec == Init /\ [][Next]_vars

-----------------------------------------------------------------------------
(* Properties of the /process handler, checked under Spec *)

\* the steps after the input has been resolved
PastInput ==
    \/ pc \in {"extract", "tmpfile", "deliver", "cleanup", "respond"}
    \/ pc = "done" /\ orders_soups # None

Success == pc = "done" /\ response.status = 200

\* tables of class wrapper in a document, counted without extract_orders
WrapperCount(doc) ==
    Cardinality({i \in DOMAIN doc : doc[i].class = "wrapper"})

\* C1: a request that extracted at least one order and asked for delivery
\* ends with the success summary (ok, the order count, the filename) and
\* the delivery result as data, whatever the delivery step did.
C1_DeliveryNeverAborts ==
    (pc = "done" /\ orders_data # None /\ payload.send_to_telegram)
        => /\ response.status = 200
           /\ response.body.ok
           /\ response.body.orders = Len(orders_data[1])
           /\ response.body.filename = payload.filename
           /\ response.body.telegram_result # None

\* C2 as stated: with a non-empty inline html and a url both supplied, the
\* url is not fetched and the document processed is the inline html.
C2_InlineHtmlWins ==
    (Truthy(payload.html) /\ Truthy(payload.url))
        => /\ get_calls = 0
           /\ PastInput => html = payload.html

\* C2 amended: an authorized request with a non-empty url fetches it,
\* exactly once, and the document processed is the fetched text, whatever
\* inline html came with it; the inline html is processed, and nothing
\* fetched, only when the url is falsy.
C2_UrlWins ==
    /\ (/\ Truthy(payload.url)
        /\ pc \notin {"idle", "auth", "input"}
        /\ response.status # 401)
            => get_calls = 1
    /\ (Truthy(payload.url) /\ PastInput)
            => r # None /\ r[1].status_code = 200 /\ html = Some(r[1].text)
    /\ ~Truthy(payload.url) => get_calls = 0 /\ r = None
    /\ (~Truthy(payload.url) /\ PastInput) => html = payload.html

\* both supplied, the request succeeded on a fetched document that is not
\* the inline one
C2_Witness ==
    /\ Success
    /\ Truthy(payload.html) /\ Truthy(payload.url)
    /\ get_calls = 1
    /\ html # payload.html
    /\ response.body.orders # WrapperCount(payload.html[1])

\* C3: a request that created its temp file has removed it when it ends.
C3_TempFileRemoved ==
    (pc = "done" /\ tmp_path # None) => tmp_path[1] \notin files

\* C4: with a shared secret configured and the x-api-key header missing or
\* different, the request ends with 401 at once: nothing was fetched,
\* parsed, extracted, rendered, written to disk or delivered.
C4_RejectedBeforeAnyStep ==
    (/\ pc \notin {"idle", "auth"}
     /\ API_KEY # <<>>
     /\ (x_api_key = None \/ x_api_key[1] # API_KEY))
        => /\ pc = "done" /\ response.status = 401
           /\ get_calls = 0 /\ r = None /\ post_calls = 0
           /\ html = None /\ orders_soups = None /\ orders_data = None
           /\ final_html = None /\ tmp_path = None /\ tg_result = None

\* a request with no header and a url to fetch was rejected
C4_Witness ==
    /\ pc = "done" /\ response.status = 401
    /\ API_KEY # <<>> /\ x_api_key = None
    /\ Truthy(payload.url) /\ payload.send_to_telegram

\* C5: a resolved document with no order block ends the request with 404,
\* nothing rendered, written or delivered; and a success summary reports
\* the number of order blocks of the document, which is at least 1.
C5_NoOrdersIsNotFound ==
    /\ (orders_soups # None /\ WrapperCount(html[1]) = 0)
            => /\ pc = "done" /\ response.status = 404
               /\ orders_data = None /\ final_html = None
               /\ tmp_path = None /\ post_calls = 0
    /\ Success => /\ response.body.orders = WrapperCount(html[1])
                  /\ response.body.orders >= 1

\* a document of tables none of which is an order block was refused
C5_Witness ==
    /\ pc = "done" /\ response.status = 404
    /\ Truthy(html) /\ WrapperCount(html[1]) = 0
    /\ payload.send_to_telegram

\* C6: with delivery requested and the bot token or the chat id empty, no
\* call to the delivery endpoint is made and a request that extracted an
\* order ends with ok=true, sent_to_telegram=true and a delivery result
\* whose ok is false and which carries an error.
C6_UnconfiguredDeliveryIsSoft ==
    (/\ payload.send_to_telegram
     /\ (TELEGRAM_BOT_TOKEN = <<>> \/ TELEGRAM_CHAT_ID = <<>>))
        => /\ post_calls = 0
           /\ (pc = "done" /\ orders_data # None)
                => /\ response.status = 200
                   /\ response.body.ok
                   /\ response.body.sent_to_telegram
                   /\ response.body.telegram_result # None
                   /\ ~response.body.telegram_result[1].ok
                   /\ "error" \in DOMAIN response.body.telegram_result[1]

\* only the chat id is missing and the request succeeded
C6_Witness ==
    /\ Success
    /\ TELEGRAM_BOT_TOKEN # <<>> /\ TELEGRAM_CHAT_ID = <<>>
    /\ payload.send_to_telegram
    /\ response.body.telegram_result # None
    /\ ~response.body.telegram_result[1].ok

-----------------------------------------------------------------------------
(* get_text_by_caption on its own: SpecField draws a caption and the cells *)
(* of an order block, FieldReturn applies the function.                    *)

MaxNodes == 2    \* child nodes of one cell
MaxCells == 2    \* cells of one order block

\* the strings a span may hold: two of the captions, the first caption
\* without its trailing space, a value
SpanStrings == {CaptionOrderNumber, <<"order number", ":">>, CaptionPhone,
                <<"v">>}
\* the strings between the tags: a value, a value with spaces around it
TextStrings == {<<"v">>, <<" ", "v", " ", "w", " ">>}

FieldNodes == {SpanNode(t) : t \in SpanStrings}
              \cup {TextNode(t) : t \in TextStrings}
FieldCells == SeqsOf(FieldNodes, 0, MaxNodes)

UnitInit ==
    /\ API_KEY = <<>> /\ TELEGRAM_BOT_TOKEN = <<>> /\ TELEGRAM_CHAT_ID = <<>>
    /\ HandlerIdle
    /\ files = {}

InitField ==
    /\ UnitInit
    /\ fieldCall \in [state : {"called"}, caption : Captions,
                      cells : SeqsOf(FieldCells, 0, MaxCells),
                      result : {<<>>}]
    /\ productsCall = NoCall /\ renderCall = NoCall

FieldReturn ==
    /\ fieldCall.state = "called"
    /\ fieldCall' =
          [fieldCall EXCEPT
             !.state = "returned",
             !.result = get_text_by_caption(fieldCall.cells, fieldCall.caption)]
    /\ UNCHANGED <<handlerVars, productsCall, renderCall>>

SpecField == InitField /\ [][FieldReturn]_vars

\* C7: when the block has a label span whose text equals the caption, the
\* result is the full text of the element around the first such span with
\* the caption removed and the ends trimmed, and no longer contains the
\* caption; when there is no such span the result is empty.
C7_FieldIsTextWithoutCaption ==
    fieldCall.state = "returned" =>
        LET caption == fieldCall.caption
            cells   == fieldCall.cells
            hit     == CellsWithLabel(cells, caption)
        IN  IF hit = {}
            THEN fieldCall.result = <<>>
            ELSE /\ fieldCall.result =
                      Strip(ReplaceWithEmpty(GetText(cells[Min(hit)]), caption))
                 /\ ~Contains(fieldCall.result, caption)

-----------------------------------------------------------------------------
(* The products loop on its own: SpecProducts draws a products table,      *)
(* ProductsReturn applies extract_products.                                *)

MaxRows == 2    \* rows of one products table

\* the content of the td at (row, col), by its kind; every text names its
\* row, so that a product tells which row it came from
Td(kind, row, col) ==
    CASE kind = "plain"   -> <<TextNode(<<"t">>)>>
      [] kind = "h2"      -> <<H2Node(<<" ", "name", ToString(row), " ">>)>>
      [] kind = "h2attrs" -> <<H2Node(<<"name", ToString(row)>>),
                               AttrsSpan(<<" ", "attrs", ToString(row)>>)>>
      [] kind = "span"    -> <<SpanNode(<<"label", ToString(row),
                                          ToString(col), " ">>)>>

TdKinds == {"plain", "h2", "h2attrs", "span"}

\* rows of no td (a header row of th), and of one td fewer than, as many
\* as and one more than the loop asks for.  The second td has a heading,
\* with or without attributes, or none; the third a span or a heading
\* out of place; the fourth a span or none; the first and the fifth,
\* which the loop never reads, are plain
RowShapes ==
    {<<>>} \cup
    {shape \in SeqsOf(TdKinds, MinTds - 1, MinTds + 1) :
        /\ shape[1] = "plain"
        /\ shape[2] \in {"plain", "h2", "h2attrs"}
        /\ shape[3] \in {"span", "h2"}
        /\ \A j \in 4..Len(shape) :
              shape[j] \in (IF j = 4 THEN {"plain", "span"} ELSE {"plain"})}

TableOfShapes(shapes) ==
    [i \in DOMAIN shapes |->
        [j \in DOMAIN shapes[i] |-> Td(shapes[i][j], i, j)]]

ProductsTables ==
    {None} \cup {Some(TableOfShapes(shapes)) :
                    shapes \in SeqsOf(RowShapes, 0, MaxRows)}

InitProducts ==
    /\ UnitInit
    /\ productsCall \in [state : {"called"}, products_table : ProductsTables,
                         result : {<<>>}]
    /\ fieldCall = NoCall /\ renderCall = NoCall

ProductsReturn ==
    /\ productsCall.state = "called"
    /\ productsCall' =
          [productsCall EXCEPT
             !.state = "returned",
             !.result = extract_products(productsCall.products_table)]
    /\ UNCHANGED <<handlerVars, fieldCall, renderCall>>

SpecProducts == InitProducts /\ [][ProductsReturn]_vars

HasTag(element, tag) == \E n \in DOMAIN element : element[n].tag = tag

\* the rows that count: at least four td and a heading in the second
ValidRows(rows) ==
    {i \in DOMAIN rows : Len(rows[i]) >= 4 /\ HasTag(rows[i][2], "h2")}

\* the k-th valid row in document order
KthValid(rows, k) ==
    CHOOSE i \in ValidRows(rows) :
        Cardinality({j \in ValidRows(rows) : j < i}) = k - 1

\* C8: the products are the valid rows of the table, one product each, in
\* row order, each with the four keys; the name is the heading of its row,
\* attrs, code and quantity are empty when the row has no such part.
C8_ValidRowsInOrder ==
    (productsCall.state = "returned" /\ productsCall.products_table # None) =>
        LET rows   == productsCall.products_table[1]
            result == productsCall.result
        IN  /\ Len(result) = Cardinality(ValidRows(rows))
            /\ \A k \in DOMAIN result :
                 LET i == KthValid(rows, k)
                 IN  /\ DOMAIN result[k] = {"name", "attrs", "code", "quantity"}
                     /\ result[k].name = <<"name", ToString(i)>>
                     /\ result[k].attrs =
                          (IF \E n \in DOMAIN rows[i][2] :
                                 rows[i][2][n].class = "product-attrs"
                           THEN <<"attrs", ToString(i)>> ELSE <<>>)
                     /\ HasTag(rows[i][3], "span") \/ result[k].code = <<>>
                     /\ HasTag(rows[i][4], "span") \/ result[k].quantity = <<>>
                     /\ HasTag(rows[i][4], "span")
                          => result[k].quantity =
                                <<"label", ToString(i), ToString(4)>>

\* a row with four td and no heading came before a product row, and the
\* one product is the second row's
C8_Witness ==
    /\ productsCall.state = "returned"
    /\ productsCall.products_table # None
    /\ Len(productsCall.products_table[1]) = 2
    /\ Len(productsCall.products_table[1][1]) = 4
    /\ ValidRows(productsCall.products_table[1]) = {2}
    /\ Len(productsCall.result) = 1
    /\ productsCall.result[1].name = <<"name", "2">>

-----------------------------------------------------------------------------
(* The renderer on its own: SpecRender draws the order records,            *)
(* RenderReturn applies generate_html_for_orders.                          *)

MaxOrders   == 2    \* order records in one call
MaxProducts == 2    \* product lines of one record

\* values as extraction yields them from third-party markup: plain text,
\* text with an ampersand, a tag-like substring
PlainValue == <<"v">>
AmpValue   == <<"a", "&", "b">>
TagValue   == <<"<", "tr", ">">>
Values     == {PlainValue, AmpValue, TagValue}

ProductLines ==
    [name : Values, attrs : {<<>>}, code : {<<"c">>}, quantity : {<<"1">>}]

OrderRecords ==
    [order_number : {<<"7">>, <<"9">>}, order_date : {<<"d">>},
     full_name : {<<"n">>}, phone : {<<>>}, zipcode : {<<"z">>},
     address : Values,
     products : SeqsOf(ProductLines, 0, MaxProducts)]

InitRender ==
    /\ UnitInit
    /\ renderCall \in [state : {"called"},
                       orders_data : SeqsOf(OrderRecords, 0, MaxOrders),
                       result : {<<>>}]
    /\ fieldCall = NoCall /\ productsCall = NoCall

RenderReturn ==
    /\ renderCall.state = "called"
    /\ renderCall' =
          [renderCall EXCEPT
             !.state = "returned",
             !.result = generate_html_for_orders(renderCall.orders_data)]
    /\ UNCHANGED <<handlerVars, fieldCall, productsCall>>

SpecRender == InitRender /\ [][RenderReturn]_vars

\* html.escape on one symbol
EscapeSymbol(c) ==
    CASE c = "&" -> "&amp;"
      [] c = "<" -> "&lt;"
      [] c = ">" -> "&gt;"
      [] OTHER   -> c

HtmlEscape(value) == [i \in DOMAIN value |-> EscapeSymbol(value[i])]

EscapeProduct(p) ==
    [name |-> HtmlEscape(p.name), attrs |-> HtmlEscape(p.attrs),
     code |-> HtmlEscape(p.code), quantity |-> HtmlEscape(p.quantity)]

EscapeOrder(order) ==
    [order_number |-> HtmlEscape(order.order_number),
     order_date   |-> HtmlEscape(order.order_date),
     full_name    |-> HtmlEscape(order.full_name),
     phone        |-> HtmlEscape(order.phone),
     zipcode      |-> HtmlEscape(order.zipcode),
     address      |-> HtmlEscape(order.address),
     products     |-> [j \in DOMAIN order.products |->
                          EscapeProduct(order.products[j])]]

\* C9: every interpolated value stands in the document HTML-escaped: the
\* document is the one the same records give once their values are
\* escaped, so no "<", ">" or "&" of a value is in it as markup.
C9_ValuesAreEscaped ==
    renderCall.state = "returned" =>
        renderCall.result =
            generate_html_for_orders(
                [k \in DOMAIN renderCall.orders_data |->
                    EscapeOrder(renderCall.orders_data[k])])

\* where tag `name` opens in a document
OpenAt(doc, name) ==
    {i \in 1..(Len(doc) - 1) : doc[i] = "<" /\ doc[i + 1] = name}

\* the part of the document from where the k-th section opens to where
\* the next one does
SectionOf(doc, k) ==
    LET starts == OpenAt(doc, "section")
        nth(n) == CHOOSE i \in starts :
                      Cardinality({j \in starts : j < i}) = n - 1
    IN  SubSeq(doc, nth(k),
               IF k < Cardinality(starts) THEN nth(k + 1) - 1 ELSE Len(doc))

FieldLabels ==
    <<"order number:", "order date:", "full name:", "phone:", "zipcode:",
      "address:">>

FieldValues(order) ==
    <<order.order_number, order.order_date, order.full_name, order.phone,
      order.zipcode, order.address>>

\* C10: N records give N sections; the k-th is headed k, holds one table
\* row per product of the k-th record (after the header row), the rows in
\* the products' order, and the record's six labelled lines.
C10_SectionsFollowRecords ==
    renderCall.state = "returned" =>
        LET doc    == renderCall.result
            orders == renderCall.orders_data
        IN  /\ Cardinality(OpenAt(doc, "section")) = Len(orders)
            /\ \A k \in DOMAIN orders :
                 LET sec == SectionOf(doc, k)
                 IN  /\ Contains(sec, Open("h2")
                                      \o <<"order no", " ", ToString(k)>>
                                      \o Close("h2"))
                     /\ Cardinality(OpenAt(sec, "tr"))
                          = 1 + Len(orders[k].products)
                     /\ Contains(sec, Open("tbody")
                                      \o ProductRowsHtml(orders[k].products)
                                      \o Close("tbody"))
                     /\ \A f \in DOMAIN FieldLabels :
                          Contains(sec, <<FieldLabels[f]>> \o Close("strong")
                                        \o <<" ">> \o FieldValues(orders[k])[f]
                                        \o Close("div"))

\* C10 on records whose values hold no "<"
C10_OnMarkupFreeRecords ==
    (\A k \in DOMAIN renderCall.orders_data :
        /\ ~Contains(renderCall.orders_data[k].address, <<"<">>)
        /\ \A j \in DOMAIN renderCall.orders_data[k].products :
              ~Contains(renderCall.orders_data[k].products[j].name, <<"<">>))
        => C10_SectionsFollowRecords

=============================================================================
